---- MODULE Spec2Model ----
(***************************************************************************)
(* The llama.cpp provider adapters of this repository, as a state machine. *)
(*                                                                         *)
(* Three variants of the adapter exist in the source:                      *)
(*   "builtin"  src/langextract_llamacpp/provider.py                       *)
(*   "plugin"   src/langextract-llamacpp/langextract_llamacpp/provider.py  *)
(*   "example"  src/examples/custom_provider_plugin/.../provider.py        *)
(* One run of the model constructs one adapter of one variant against an   *)
(* environment and a server, then drives it: infer() creates a generator,  *)
(* next() resumes it up to its next yield / raise / return, close()        *)
(* abandons it, apply_schema() rebinds the schema (plugin variant).        *)
(*                                                                         *)
(* Python values: strings are TLA+ strings, None is the value None below,  *)
(* a dict is a function on its keys, a list is a sequence, a float is      *)
(* held in tenths (0.6 is 6).  Completion texts are sequences of           *)
(* characters so that strip() is computed.                                 *)
(***************************************************************************)
EXTENDS Integers, Sequences, FiniteSets, TLC

VARIABLES
  variant,     \* which adapter class is under test
  env,         \* os.environ: LLAMACPP_API_KEY, LLAMACPP_API_BASE (None = unset)
  server,      \* the ids the server's model listing reports, in order
  state,       \* "uninitialized" | "ready" | "failed"
  ctorArgs,    \* the arguments __init__ was called with (history)
  ctorError,   \* the exception __init__ raised, or None
  constructed, \* the attributes as __init__ left them (history)
  self,        \* the adapter's attributes
  gen,         \* the generator infer() returned
  wire,        \* per request this infer call issued: its prompt and outcome
  request,     \* the keyword arguments of the last request issued
  results,     \* the lists this infer call yielded
  raised,      \* the exception this infer call raised, or NoError
  op,          \* the last operation applied to the adapter
  prevOp       \* the operation before it

vars == <<variant, env, server, state, ctorArgs, ctorError, constructed, self,
          gen, wire, request, results, raised, op, prevOp>>

\* ------------------------------------------------------------ bounds
MaxPrompts == 2

\* ------------------------------------------------------------ Python values
None == "None"
Empty == [k \in {} |-> None]

\* Python truthiness of None / str values: None and '' are false.
Truthy(x) == x # None /\ x # ""

\* a or b
Or(a, b) == IF Truthy(a) THEN a ELSE b

\* d.get(key, default)
Get(d, key, default) == IF key \in DOMAIN d THEN d[key] ELSE default

\* a parameter with a default value
Param(a, key, default) == IF key \in DOMAIN a THEN a[key] ELSE default

IsSpace(c) == c \in {" ", "\n", "\t"}

RECURSIVE LStrip(_)
LStrip(s) == IF s # <<>> /\ IsSpace(Head(s)) THEN LStrip(Tail(s)) ELSE s

RECURSIVE RStrip(_)
RStrip(s) ==
  IF s # <<>> /\ IsSpace(s[Len(s)]) THEN RStrip(SubSeq(s, 1, Len(s) - 1)) ELSE s

\* str.strip()
Strip(s) == RStrip(LStrip(s))

\* ------------------------------------------------------------ constants
DefaultTemperature == 6
DefaultMaxTokens == 32768
DefaultApiBase == "http://127.0.0.1:8080"
DefaultApiKey == "EMPTY"
Score == 1

Variants == {"builtin", "plugin", "example"}

\* ------------------------------------------------------------ inputs
EnvKeys == {None, "sk-env"}
EnvBases == {None, "http://env:8080"}
ServerModels == {<<>>, <<"llamaX", "llamaY">>}

\* Keyword arguments of __init__, per variant; a key left out is an argument
\* not given.
ConnArgs(key, base) ==
  {Empty, [k \in {key} |-> "sk-arg"], [k \in {base} |-> "http://arg:9000"]}
GenArgs ==
  {Empty, [system_prompt |-> "Be terse.", temperature |-> 0, max_tokens |-> 256]}

BuiltinArgs ==
  {c @@ g : c \in ConnArgs("openai_api_key", "openai_api_base"), g \in GenArgs}

PluginArgs ==
  {[model_id |-> "llama-7b"] @@ c @@ s :
     c \in ConnArgs("api_key", "base_url"),
     s \in {Empty, [response_schema |-> "S0"],
            [response_schema |-> "S0", structured_output |-> TRUE]}}

ExampleArgs ==
  {m @@ c @@ g @@ s :
     m \in {Empty, [model_id |-> "llama-7b"]},
     c \in ConnArgs("api_key", "api_base") \cup {[api_key |-> None]},
     g \in GenArgs,
     s \in {Empty, [response_schema |-> "S0"],
            [response_schema |-> "S0", enable_structured_output |-> TRUE]}}

CtorArgs(v) ==
  CASE v = "builtin" -> BuiltinArgs
    [] v = "plugin" -> PluginArgs
    [] v = "example" -> ExampleArgs

\* schema_instance arguments of apply_schema: a schema object, held as the
\* dict its to_provider_config() returns, or no object (Python's None).
NoSchema == Empty
SchemaInstances ==
  {[to_provider_config |-> [response_schema |-> "S1", structured_output |-> TRUE]],
   [to_provider_config |-> [response_schema |-> "S2"]]}

\* **kwargs of infer
InferKwargs ==
  {Empty,
   [temperature |-> 1, max_output_tokens |-> 64, top_p |-> 9],
   [model |-> "gpt-x"]}

Prompts == <<"p1", "p2", "p3", "p4">>
BatchPrompts == {SubSeq(Prompts, 1, n) : n \in 0..MaxPrompts}

\* What the remote call does: returns a response (its choices' message
\* contents), or raises.  A response is a success when it has a first
\* choice that carries text; one without choices is malformed.
Outcomes ==
  {[raises |-> None, choices |-> <<<<"4">>>>],
   [raises |-> None, choices |-> <<<<" ", "5", "\n">>, <<"6">>>>],
   [raises |-> None, choices |-> <<>>],
   [raises |-> "APIConnectionError", choices |-> <<>>]}

NoError == [type |-> None, original |-> None, provider |-> None]
NoGen == [pc |-> "none", batch_prompts |-> <<>>, kwargs |-> Empty, i |-> 1,
          config |-> Empty]

\* ------------------------------------------------------------ construction
\* OpenAI(api_key=..., base_url=...)
OpenAI(api_key, base_url) == [api_key |-> api_key, base_url |-> base_url]

\* Each __init__ returns the exception it raises (None when it returns) and
\* the attributes it has set.
BuiltinInit(a, models) ==
  LET key == Or(Param(a, "openai_api_key", None), DefaultApiKey)
      base == Or(Param(a, "openai_api_base", None), DefaultApiBase)
      attrs == [openai_api_key |-> key,
                openai_api_base |-> base,
                system_prompt |-> Param(a, "system_prompt", ""),
                temperature |-> Param(a, "temperature", DefaultTemperature),
                max_tokens |-> Param(a, "max_tokens", DefaultMaxTokens),
                _client |-> OpenAI(key, base)]
  IN IF models = <<>>
       THEN [error |-> "IndexError", self |-> attrs]
       ELSE [error |-> None, self |-> attrs @@ [model_id |-> models[1]]]

PluginInit(a, environ) ==
  LET key == Or(Param(a, "api_key", None), environ.LLAMACPP_API_KEY)
      base == Or(Param(a, "base_url", None),
                 IF environ.LLAMACPP_API_BASE # None
                   THEN environ.LLAMACPP_API_BASE ELSE DefaultApiBase)
      kwargs == [k \in DOMAIN a \ {"model_id", "api_key", "base_url"} |-> a[k]]
  IN [error |-> None,
      self |-> [model_id |-> a.model_id,
                api_key |-> key,
                base_url |-> base,
                response_schema |-> Get(kwargs, "response_schema", None),
                structured_output |-> Get(kwargs, "structured_output", FALSE),
                client |-> OpenAI(key, base),
                _extra_kwargs |-> kwargs]]

ExampleInit(a, models) ==
  LET key == Param(a, "api_key", DefaultApiKey)
      base == Param(a, "api_base", DefaultApiBase)
      model == Param(a, "model_id", None)
      kwargs == [k \in DOMAIN a \ {"model_id", "api_key", "api_base",
                   "system_prompt", "temperature", "max_tokens"} |-> a[k]]
      attrs == [api_key |-> key,
                api_base |-> base,
                system_prompt |-> Param(a, "system_prompt", ""),
                temperature |-> Param(a, "temperature", DefaultTemperature),
                max_tokens |-> Param(a, "max_tokens", DefaultMaxTokens),
                response_schema |-> Get(kwargs, "response_schema", None),
                enable_structured_output |->
                  Get(kwargs, "enable_structured_output", FALSE),
                _extra_kwargs |-> kwargs,
                _client |-> OpenAI(key, base)]
  IN IF model = None
       THEN IF models = <<>>
              THEN [error |-> "InferenceConfigError", self |-> attrs]
              ELSE [error |-> None, self |-> attrs @@ [model_id |-> models[1]]]
       ELSE [error |-> None, self |-> attrs @@ [model_id |-> model]]

Init ==
  /\ variant \in Variants
  /\ env \in [LLAMACPP_API_KEY : EnvKeys, LLAMACPP_API_BASE : EnvBases]
  /\ server \in ServerModels
  /\ state = "uninitialized"
  /\ ctorArgs = Empty
  /\ ctorError = None
  /\ constructed = Empty
  /\ self = Empty
  /\ gen = NoGen
  /\ wire = <<>>
  /\ request = Empty
  /\ results = <<>>
  /\ raised = NoError
  /\ op = "none"
  /\ prevOp = "none"

\* cls(**a): an exception in __init__ leaves the caller without an adapter.
Construct ==
  /\ state = "uninitialized"
  /\ \E a \in CtorArgs(variant) :
       LET r == CASE variant = "builtin" -> BuiltinInit(a, server)
                  [] variant = "plugin" -> PluginInit(a, env)
                  [] variant = "example" -> ExampleInit(a, server)
       IN /\ ctorArgs' = a
          /\ ctorError' = r.error
          /\ state' = IF r.error = None THEN "ready" ELSE "failed"
          /\ self' = IF r.error = None THEN r.self ELSE Empty
          /\ constructed' = self'
  /\ op' = "construct"
  /\ prevOp' = op
  /\ UNCHANGED <<variant, env, server, gen, wire, request, results, raised>>

\* ------------------------------------------------------------ requests
\* The keyword arguments of one chat.completions.create call, per variant.
BuiltinRequest(obj, prompt) ==
  [model |-> obj.model_id,
   messages |-> <<[role |-> "system", content |-> obj.system_prompt],
                  [role |-> "user", content |-> prompt]>>,
   temperature |-> obj.temperature,
   max_tokens |-> obj.max_tokens]

\* api_params.update(kwargs): the keys of kwargs win.
PluginRequest(obj, prompt, kwargs) ==
  LET api_params == [model |-> obj.model_id,
                     messages |-> <<[role |-> "user", content |-> prompt]>>]
      with_schema == IF Truthy(obj.response_schema)
                       THEN [response_schema |-> obj.response_schema] @@ api_params
                       ELSE api_params
  IN kwargs @@ with_schema

\* The config dict infer builds before its loop.
ExampleConfig(obj, kwargs) ==
  LET config == [temperature |-> Get(kwargs, "temperature", obj.temperature),
                 max_tokens |-> Get(kwargs, "max_output_tokens", obj.max_tokens)]
      with_top_p == IF "top_p" \in DOMAIN kwargs
                      THEN [top_p |-> kwargs.top_p] @@ config
                      ELSE config
  IN IF Truthy(obj.response_schema) /\ obj.enable_structured_output
       THEN [response_format |->
               [type |-> "json_schema",
                json_schema |-> [name |-> "schema",
                                 schema |-> obj.response_schema]]] @@ with_top_p
       ELSE with_top_p

ExampleRequest(obj, prompt, config) ==
  LET messages == IF Truthy(obj.system_prompt)
                    THEN <<[role |-> "system", content |-> obj.system_prompt],
                           [role |-> "user", content |-> prompt]>>
                    ELSE <<[role |-> "user", content |-> prompt]>>
  IN [model |-> obj.model_id, messages |-> messages] @@ config

Request(v, obj, prompt, kwargs, config) ==
  CASE v = "builtin" -> BuiltinRequest(obj, prompt)
    [] v = "plugin" -> PluginRequest(obj, prompt, kwargs)
    [] v = "example" -> ExampleRequest(obj, prompt, config)

\* A slip in the index: the last choice instead of the first.
OutputTextLastChoice(v, response) ==
  LET last == response.choices[Len(response.choices)]
  IN IF v = "example" THEN Strip(last) ELSE last

\* response.choices[0].message.content, stripped by the example variant.
OutputText(v, response) ==
  IF v = "example" THEN Strip(response.choices[1]) ELSE response.choices[1]

ScoredOutput(score, output) == [score |-> score, output |-> output]

\* The exception the loop body meets: the one the remote call raises, or the
\* IndexError of choices[0] on a response without choices.
BodyError(outcome) ==
  IF outcome.raises # None THEN outcome.raises
  ELSE IF outcome.choices = <<>> THEN "IndexError"
  ELSE None

\* What leaves the generator when its loop body meets exception e.
BuiltinRaise(e) ==
  [type |-> "InferenceRuntimeError", original |-> e, provider |-> "llama.cpp"]

ExampleRaise(e) ==
  [type |-> "InferenceRuntimeError", original |-> e, provider |-> None]

PluginRaise(e) == [type |-> e, original |-> None, provider |-> None]

Raise(v, e) ==
  CASE v = "builtin" -> BuiltinRaise(e)
    [] v = "plugin" -> PluginRaise(e)
    [] v = "example" -> ExampleRaise(e)

\* A handler that swallows the error and goes on with the next prompt.
AfterRaiseContinue(g) == [g EXCEPT !.pc = "suspended", !.i = g.i + 1]

\* The generator after its body raised: it is finished.
AfterRaise(g) == [g EXCEPT !.pc = "raised"]

\* ------------------------------------------------------------ operations
\* model.infer(batch_prompts, **kwargs): a generator function, so the call
\* runs none of its body.  The consumer holds one generator at a time.
Infer ==
  /\ state = "ready"
  /\ gen.pc \notin {"created", "suspended"}
  /\ \E batch_prompts \in BatchPrompts, kwargs \in InferKwargs :
       gen' = [pc |-> "created", batch_prompts |-> batch_prompts,
               kwargs |-> kwargs, i |-> 1, config |-> Empty]
  /\ wire' = <<>>
  /\ request' = Empty
  /\ results' = <<>>
  /\ raised' = NoError
  /\ op' = "infer"
  /\ prevOp' = op
  /\ UNCHANGED <<variant, env, server, state, ctorArgs, ctorError,
                 constructed, self>>

\* next(gen): runs the body up to the next yield, raise or return.  The
\* example variant builds config when the body starts.
NextItem ==
  /\ gen.pc \in {"created", "suspended"}
  /\ \E outcome \in Outcomes :
       LET config == IF gen.pc = "created" /\ variant = "example"
                       THEN ExampleConfig(self, gen.kwargs) ELSE gen.config
           g == [gen EXCEPT !.config = config]
       IN IF gen.i > Len(gen.batch_prompts)
            THEN /\ gen' = [g EXCEPT !.pc = "exhausted"]
                 /\ UNCHANGED <<wire, request, results, raised>>
            ELSE LET prompt == gen.batch_prompts[gen.i]
                     e == BodyError(outcome)
                 IN /\ request' = Request(variant, self, prompt, gen.kwargs, config)
                    /\ wire' = Append(wire, [prompt |-> prompt, outcome |-> outcome])
                    /\ IF e = None
                         THEN /\ results' = Append(results,
                                   <<ScoredOutput(Score, OutputText(variant, outcome))>>)
                              /\ gen' = [g EXCEPT !.pc = "suspended", !.i = gen.i + 1]
                              /\ UNCHANGED raised
                         ELSE /\ raised' = Raise(variant, e)
                              /\ gen' = AfterRaise(g)
                              /\ UNCHANGED results
  /\ op' = "next"
  /\ prevOp' = op
  /\ UNCHANGED <<variant, env, server, state, ctorArgs, ctorError,
                 constructed, self>>

\* The consumer stops iterating: gen.close(), or the generator is dropped.
Close ==
  /\ gen.pc \in {"created", "suspended"}
  /\ gen' = [gen EXCEPT !.pc = "closed"]
  /\ op' = "close"
  /\ prevOp' = op
  /\ UNCHANGED <<variant, env, server, state, ctorArgs, ctorError,
                 constructed, self, wire, request, results, raised>>

\* A clearing branch that forgets the structured-output flag.
PluginApplySchemaKeepsFlag(obj, schema_instance) ==
  IF DOMAIN schema_instance # {}
    THEN LET config == schema_instance.to_provider_config
         IN [obj EXCEPT
               !.response_schema = Get(config, "response_schema", None),
               !.structured_output = Get(config, "structured_output", FALSE)]
    ELSE [obj EXCEPT !.response_schema = None]

\* An apply_schema that also records the schema's config in _extra_kwargs.
PluginApplySchemaUpdatesKwargs(obj, schema_instance) ==
  IF DOMAIN schema_instance # {}
    THEN LET config == schema_instance.to_provider_config
         IN [obj EXCEPT
               !.response_schema = Get(config, "response_schema", None),
               !.structured_output = Get(config, "structured_output", FALSE),
               !._extra_kwargs = config @@ obj._extra_kwargs]
    ELSE [obj EXCEPT !.response_schema = None, !.structured_output = FALSE]

\* apply_schema of the plugin variant, on its attributes.
PluginApplySchema(obj, schema_instance) ==
  IF DOMAIN schema_instance # {}
    THEN LET config == schema_instance.to_provider_config
         IN [obj EXCEPT
               !.response_schema = Get(config, "response_schema", None),
               !.structured_output = Get(config, "structured_output", FALSE)]
    ELSE [obj EXCEPT !.response_schema = None, !.structured_output = FALSE]

ApplySchema ==
  /\ state = "ready"
  /\ variant = "plugin"
  /\ \E schema_instance \in SchemaInstances \cup {NoSchema} :
       /\ self' = PluginApplySchema(self, schema_instance)
       /\ op' = IF DOMAIN schema_instance = {} THEN "clear_schema" ELSE "apply_schema"
  /\ prevOp' = op
  /\ UNCHANGED <<variant, env, server, state, ctorArgs, ctorError,
                 constructed, gen, wire, request, results, raised>>

Next == Construct \/ Infer \/ NextItem \/ Close \/ ApplySchema

Spec == Init /\ [][Next]_vars

\* ------------------------------------------------------------ vocabulary
\* The attributes under the names the three classes give them.
Credential(obj) ==
  IF "openai_api_key" \in DOMAIN obj THEN obj.openai_api_key ELSE obj.api_key

BaseUrl(obj) ==
  IF "openai_api_base" \in DOMAIN obj THEN obj.openai_api_base
  ELSE IF "base_url" \in DOMAIN obj THEN obj.base_url
  ELSE obj.api_base

SystemPrompt(obj) == Get(obj, "system_prompt", "")

ResponseSchema(obj) == Get(obj, "response_schema", None)

StructuredOutput(obj) ==
  IF "structured_output" \in DOMAIN obj THEN obj.structured_output
  ELSE Get(obj, "enable_structured_output", FALSE)

CredentialArg(a) ==
  IF "openai_api_key" \in DOMAIN a THEN a.openai_api_key ELSE Get(a, "api_key", None)

BaseUrlArg(a) ==
  IF "openai_api_base" \in DOMAIN a THEN a.openai_api_base
  ELSE IF "base_url" \in DOMAIN a THEN a.base_url
  ELSE Get(a, "api_base", None)

\* The last step was a next() that issued a request.
JustSent == op = "next" /\ gen.pc \in {"suspended", "raised"}

LastSent == wire[Len(wire)]

\* ------------------------------------------------------------ claims

\* C1: when infer(prompts) on a non-empty batch is consumed to its end, it
\* has yielded exactly len(prompts) lists; the k-th list comes from the
\* request issued for the k-th prompt and holds exactly one ScoredOutput,
\* whose score is 1.0 and whose output is the first choice's text of that
\* request's response (up to trimming).
C1_OneListPerPrompt ==
  gen.pc = "exhausted" /\ Len(gen.batch_prompts) > 0 =>
    /\ Len(results) = Len(gen.batch_prompts)
    /\ Len(wire) = Len(gen.batch_prompts)
    /\ \A k \in 1..Len(results) :
         /\ wire[k].prompt = gen.batch_prompts[k]
         /\ wire[k].outcome.raises = None
         /\ Len(results[k]) = 1
         /\ results[k][1].score = 1
         /\ Strip(results[k][1].output) = Strip(wire[k].outcome.choices[1])

C1_Witness ==
  /\ gen.pc = "exhausted"
  /\ Len(gen.batch_prompts) >= 2
  /\ results[1] # results[2]

\* C2: when the remote call for the k-th prompt raises, infer raises an
\* InferenceRuntimeError that wraps that error and carries a provider tag,
\* having yielded the results of prompts 1..k-1 only, in every variant.
C2_FailureIsWrapped ==
  gen.pc = "raised" /\ LastSent.outcome.raises # None =>
    /\ raised.type = "InferenceRuntimeError"
    /\ raised.original = LastSent.outcome.raises
    /\ raised.provider # None
    /\ Len(results) = Len(wire) - 1

\* C3 (as stated): apply_schema(schema); apply_schema(None) leaves structured
\* output disabled and response_schema unset, and the adapter as one on
\* which no schema was ever applied, whatever it was constructed with.
C3_ClearRestoresConstructed ==
  prevOp = "apply_schema" /\ op = "clear_schema" =>
    /\ ResponseSchema(self) = None
    /\ StructuredOutput(self) = FALSE
    /\ self = constructed

\* C3 (amended): apply_schema(schema); apply_schema(None) leaves structured
\* output disabled and response_schema unset and every other attribute as
\* constructed; that is the never-applied adapter exactly when it was
\* constructed without schema keyword arguments.
C3_ClearDisablesSchema ==
  prevOp = "apply_schema" /\ op = "clear_schema" =>
    /\ ResponseSchema(self) = None
    /\ StructuredOutput(self) = FALSE
    /\ self = [constructed EXCEPT !.response_schema = None,
                                  !.structured_output = FALSE]
    /\ (self = constructed <=>
          ResponseSchema(constructed) = None /\ ~StructuredOutput(constructed))

C3_Witness ==
  /\ prevOp = "apply_schema"
  /\ op = "clear_schema"
  /\ ResponseSchema(constructed) # None
  /\ ResponseSchema(self) = None

\* C4: with no model id given and an empty model listing, construction
\* fails with InferenceConfigError and no adapter exists, in every variant
\* that resolves the model from the server.
C4_NoModelsIsConfigError ==
  /\ state # "uninitialized"
  /\ variant \in {"builtin", "example"}
  /\ "model_id" \notin DOMAIN ctorArgs
  /\ server = <<>>
  => /\ state = "failed"
     /\ self = Empty
     /\ ctorError = "InferenceConfigError"

\* C5: every request ends with the user message carrying the prompt; with a
\* non-empty system prompt it starts with exactly one system message of that
\* text, with an empty one it holds no system message.
C5_RequestMessages ==
  JustSent =>
    LET messages == request.messages
        system == {i \in 1..Len(messages) : messages[i].role = "system"}
    IN /\ messages[Len(messages)] = [role |-> "user", content |-> LastSent.prompt]
       /\ IF SystemPrompt(self) # ""
            THEN /\ system = {1}
                 /\ messages[1].content = SystemPrompt(self)
            ELSE system = {}

\* C6: a request carries a schema constraint if and only if structured
\* output is enabled and a schema is configured.
C6_SchemaOnlyWhenEnabled ==
  JustSent =>
    (({"response_schema", "response_format"} \cap DOMAIN request # {})
       <=> (StructuredOutput(self) /\ ResponseSchema(self) # None))

\* C7: a request's temperature and max tokens are the call-time values when
\* given and the constructed ones otherwise, top-p is sent only when given at
\* call time, and the overrides never replace the model id or the messages.
C7_OverridesMergeOverDefaults ==
  JustSent =>
    LET kwargs == gen.kwargs
    IN /\ "temperature" \in DOMAIN kwargs =>
            /\ "temperature" \in DOMAIN request
            /\ request.temperature = kwargs.temperature
       /\ "temperature" \notin DOMAIN kwargs /\ "temperature" \in DOMAIN self =>
            /\ "temperature" \in DOMAIN request
            /\ request.temperature = self.temperature
       /\ "max_output_tokens" \in DOMAIN kwargs =>
            /\ "max_tokens" \in DOMAIN request
            /\ request.max_tokens = kwargs.max_output_tokens
       /\ "max_output_tokens" \notin DOMAIN kwargs /\ "max_tokens" \in DOMAIN self =>
            /\ "max_tokens" \in DOMAIN request
            /\ request.max_tokens = self.max_tokens
       /\ "top_p" \in DOMAIN request <=> "top_p" \in DOMAIN kwargs
       /\ "top_p" \in DOMAIN kwargs => request.top_p = kwargs.top_p
       /\ request.model = self.model_id
       /\ request.messages[Len(request.messages)].content = LastSent.prompt

\* C8: the credential is the constructor argument when given, else the
\* environment variable when set, else "EMPTY"; the base URL is the
\* constructor argument when given, else the environment variable when set,
\* else the local default; the credential is never absent.
C8_CredentialFallback ==
  state = "ready" =>
    /\ Credential(constructed) =
         IF CredentialArg(ctorArgs) # None THEN CredentialArg(ctorArgs)
         ELSE IF env.LLAMACPP_API_KEY # None THEN env.LLAMACPP_API_KEY
         ELSE DefaultApiKey
    /\ BaseUrl(constructed) =
         IF BaseUrlArg(ctorArgs) # None THEN BaseUrlArg(ctorArgs)
         ELSE IF env.LLAMACPP_API_BASE # None THEN env.LLAMACPP_API_BASE
         ELSE DefaultApiBase
    /\ Credential(constructed) # None

\* C9: requests are issued lazily, one per next(), in input order: a request
\* is issued only by a next() on a live generator all of whose earlier
\* requests have yielded their list, so requests never exceed yielded lists
\* by more than one; once a request has failed, or the consumer has stopped,
\* the call issues no further request.
C9_Lazy ==
  /\ Len(wire) <= Len(results) + 1
  /\ Len(wire) <= Len(gen.batch_prompts)
  /\ \A k \in 1..Len(wire) : wire[k].prompt = gen.batch_prompts[k]
  /\ Len(wire) = Len(results) + (IF gen.pc = "raised" THEN 1 ELSE 0)
  /\ gen.pc = "created" => wire = <<>>

C9_Step ==
  wire' # wire =>
    \/ op' = "infer" /\ wire' = <<>>
    \/ /\ op' = "next"
       /\ gen.pc \in {"created", "suspended"}
       /\ Len(results) = Len(wire)
       /\ SubSeq(wire', 1, Len(wire)) = wire
       /\ Len(wire') = Len(wire) + 1

C9_LazySequential == []C9_Lazy /\ [][C9_Step]_vars

C9_Witness ==
  /\ gen.pc = "raised"
  /\ Len(gen.batch_prompts) = 2
  /\ Len(wire) = 1
  /\ prevOp = "infer"

\* C10: after construction only apply_schema changes the adapter's
\* attributes, and it changes the two schema attributes only; no infer
\* call, next() or close() changes any attribute.
C10_Step ==
  state = "ready" =>
    \/ self' = self
    \/ /\ op' \in {"apply_schema", "clear_schema"}
       /\ self' = [self EXCEPT !.response_schema = self'.response_schema,
                               !.structured_output = self'.structured_output]

C10_OnlyApplySchemaMutates == [][C10_Step]_vars

C10_Witness ==
  /\ op = "next"
  /\ gen.pc = "raised"
  /\ gen.kwargs # Empty
  /\ self # constructed
====
